---- MODULE Spec2Model ----
(***************************************************************************)
(* FunkLoad bench runner (funkload/BenchRunner.py): the cycle scheduler    *)
(* BenchRunner.run, the worker loop LoopTestRunner.run, the unsynchronised  *)
(* result counters and the monitor start/stop protocol.                    *)
(*                                                                         *)
(* The scheduler is one thread, sequenced by pc.  Every LoopTestRunner is  *)
(* a thread of its own, sequenced by pcw[w]; a worker is named by the pair *)
(* <<cycle, thread_id>> it is constructed with.  A step of the model is    *)
(* one statement (or one loop iteration) of one thread, so that the        *)
(* interleavings of the scheduler and the workers are those of the code.   *)
(***************************************************************************)
EXTENDS Integers, Sequences, FiniteSets, TLC

\* Bounds of the model.
MaxCycles == 2        \* longest list of cycles
MaxVus == 2           \* largest number of virtual users in a cycle
MaxCount == 2         \* a worker starts no new iteration once the cycle counted this many
MaxHosts == 2         \* monitor hosts configured
MaxLoad == 3          \* monitor hosts plus the largest concurrency level of a run
MaxFairSize == 2      \* cycles plus monitor hosts of a run checked for liveness

Workers == (0..(MaxCycles - 1)) \X (0..(MaxVus - 1))
Outcomes == {"success", "failure", "error"}
NoCall == [method |-> "none", host |-> 0, key |-> <<0, 0>>, ok |-> TRUE]

Range(s) == {s[i] : i \in 1..Len(s)}

RECURSIVE SeqsUpTo(_, _)
SeqsUpTo(S, n) ==
    IF n = 0 THEN {<<>>}
    ELSE LET shorter == SeqsUpTo(S, n - 1)
         IN  shorter \cup {Append(s, x) : s \in shorter, x \in S}

VARIABLES
    cycles,          \* self.cycles: the list of concurrency levels
    monitor_hosts,   \* self.monitor_hosts: the active monitor targets
    pc,              \* the scheduler's position in BenchRunner.run
    cycle,           \* run's local cycle
    cvus,            \* run's loop variable cvus
    monitor_key,     \* run's local monitor_key, as <<cycle, cvus>>
    g_success, g_failures, g_errors,
    total_success, total_failures, total_errors,
    status, code,    \* run's locals status, code (last get_status result)
    running,         \* utils' running flag
    recording,       \* utils' recording flag
    threads,         \* startThreads' local list threads
    self_threads,    \* self.threads
    ji,              \* stopThreads: number of threads joined so far
    pcw,             \* each worker's position in LoopTestRunner.run
    result,          \* each worker's status argument inside add_cycle_result
    tmp,             \* each worker's loaded counter value inside +=
    mi,              \* the monitor loops' position in self.monitor_hosts
    new_hosts,       \* startMonitor's local list monitor_hosts
    server,          \* the last call made on a ServerProxy in the current handler
    log,             \* the result log: open, payloads, close
    unreachable,     \* hosts whose startRecord raised SocketError
    stop_failed,     \* hosts whose stopRecord or getXmlResult raised SocketError
    history,         \* the calls run has made so far in the current cycle, in order
    seen,            \* per outcome, the iterations of the cycle that read recording() true
    report           \* the cycle statuses run has printed

iter == <<cycle, cvus, monitor_key>>
totals == <<total_success, total_failures, total_errors>>
stat == <<status, code>>
thr == <<threads, self_threads, ji>>
flags == <<running, recording>>
counters == <<g_success, g_failures, g_errors>>
wlocals == <<pcw, result, tmp>>
monitor == <<monitor_hosts, mi, new_hosts, server, unreachable, stop_failed>>
ghost == <<history, seen, report>>
vars == <<cycles, pc, iter, totals, stat, thr, flags, counters, wlocals, monitor, log,
          ghost>>

OpenTag == [ev |-> "open", host |-> 0, key |-> <<0, 0>>]
CloseTag == [ev |-> "close", host |-> 0, key |-> <<0, 0>>]
Payload(h, k) == [ev |-> "xml", host |-> h, key |-> k]
Call(m, h, k, ok) == [method |-> m, host |-> h, key |-> k, ok |-> ok]
Ev(op) == [op |-> op, host |-> 0, ok |-> TRUE]
Rpc(op, h, ok) == [op |-> op, host |-> h, ok |-> ok]

----------------------------------------------------------------------------
\* utils (module level functions of BenchRunner.py)

Counted == g_success + g_failures + g_errors

\* get_cycle_results
get_cycle_results == <<g_success, g_failures, g_errors>>

\* Faulty variant: failures are tested before errors.
get_status_failures_first(s, f, e) ==
    IF f # 0 THEN <<"FAILURE", 1>>
    ELSE IF e # 0 THEN <<"ERROR", -1>>
    ELSE <<"SUCCESSFULL", 0>>

\* get_status: <<status, exit code>>
get_status(s, f, e) ==
    IF e # 0 THEN <<"ERROR", -1>>
    ELSE IF f # 0 THEN <<"FAILURE", 1>>
    ELSE <<"SUCCESSFULL", 0>>

\* Faulty variant: only the success counter is reset.
reset_cycle_results_partial ==
    /\ g_success' = 0
    /\ UNCHANGED <<g_failures, g_errors>>

\* reset_cycle_results
reset_cycle_results ==
    /\ g_success' = 0
    /\ g_failures' = 0
    /\ g_errors' = 0

\* add_cycle_result, the load half of the += on the counter status selects
LoadCounter(st) ==
    IF st = "success" THEN g_success
    ELSE IF st = "error" THEN g_errors
    ELSE g_failures

\* Faulty variant: the error branch stores into the failure counter.
StoreCounter_error_as_failure(st, v) ==
    IF st = "success"
    THEN g_success' = v /\ UNCHANGED <<g_failures, g_errors>>
    ELSE g_failures' = v /\ UNCHANGED <<g_success, g_errors>>

\* add_cycle_result, the store half of the +=
StoreCounter(st, v) ==
    IF st = "success"
    THEN g_success' = v /\ UNCHANGED <<g_failures, g_errors>>
    ELSE IF st = "error"
    THEN g_errors' = v /\ UNCHANGED <<g_success, g_failures>>
    ELSE g_failures' = v /\ UNCHANGED <<g_success, g_errors>>

----------------------------------------------------------------------------
Init ==
    /\ cycles \in SeqsUpTo(0..MaxVus, MaxCycles)
    /\ monitor_hosts \in {SubSeq([i \in 1..MaxHosts |-> i], 1, n) : n \in 0..MaxHosts}
    /\ \A i \in 1..Len(cycles) : Len(monitor_hosts) + cycles[i] <= MaxLoad
    /\ pc = "logr_open"
    /\ cycle = 0
    /\ cvus = 0
    /\ monitor_key = <<0, 0>>
    /\ g_success = 0 /\ g_failures = 0 /\ g_errors = 0
    /\ total_success = 0 /\ total_failures = 0 /\ total_errors = 0
    /\ status = "none" /\ code = 0
    /\ running = FALSE
    /\ recording = FALSE
    /\ threads = <<>>
    /\ self_threads = <<>>
    /\ ji = 0
    /\ pcw = [w \in Workers |-> "none"]
    /\ result = [w \in Workers |-> "none"]
    /\ tmp = [w \in Workers |-> 0]
    /\ mi = 0
    /\ new_hosts = <<>>
    /\ server = NoCall
    /\ log = <<>>
    /\ unreachable = {}
    /\ stop_failed = {}
    /\ history = <<>>
    /\ seen = [o \in Outcomes |-> 0]
    /\ report = {}

----------------------------------------------------------------------------
\* BenchRunner.run, the scheduler thread

\* logr_open
LogrOpen ==
    /\ pc = "logr_open"
    /\ log' = Append(log, OpenTag)
    /\ pc' = "for"
    /\ UNCHANGED <<cycles, iter, totals, stat, thr, flags, counters, wlocals, monitor>>
    /\ UNCHANGED ghost

\* Faulty variant: setUpCycle is not called.
ForCycle_skips_setup ==
    /\ pc = "for"
    /\ cycle < Len(cycles)
    /\ cvus' = cycles[cycle + 1]
    /\ reset_cycle_results
    /\ monitor_key' = <<cycle, cycles[cycle + 1]>>
    /\ pc' = "startMonitor"
    /\ UNCHANGED <<cycles, cycle, totals, stat, thr, flags, wlocals, monitor, log>>
    /\ history' = <<Ev("reset")>>
    /\ seen' = [o \in Outcomes |-> 0]
    /\ UNCHANGED report

\* for cvus in self.cycles: reset_cycle_results(); monitor_key = ...
ForCycle ==
    /\ pc = "for"
    /\ cycle < Len(cycles)
    /\ cvus' = cycles[cycle + 1]
    /\ reset_cycle_results
    /\ monitor_key' = <<cycle, cycles[cycle + 1]>>
    /\ pc' = "setUpCycle"
    /\ UNCHANGED <<cycles, cycle, totals, stat, thr, flags, wlocals, monitor, log>>
    /\ history' = <<Ev("reset")>>
    /\ seen' = [o \in Outcomes |-> 0]
    /\ UNCHANGED report

\* self.test.setUpCycle()
SetUpCycle ==
    /\ pc = "setUpCycle"
    /\ pc' = "startMonitor"
    /\ UNCHANGED <<cycles, iter, totals, stat, thr, flags, counters, wlocals, monitor, log>>
    /\ history' = Append(history, Ev("setUpCycle"))
    /\ UNCHANGED <<seen, report>>

\* startMonitor: no host configured, or the loop is entered
StartMonitor ==
    /\ pc = "startMonitor"
    /\ IF monitor_hosts = <<>>
       THEN pc' = "startThreads" /\ UNCHANGED <<mi, new_hosts>>
       ELSE pc' = "startRecord" /\ mi' = 1 /\ new_hosts' = <<>>
    /\ UNCHANGED <<cycles, iter, totals, stat, thr, flags, counters, wlocals,
                   monitor_hosts, server, unreachable, stop_failed, log>>
    /\ history' = Append(history, Ev("startMonitor"))
    /\ UNCHANGED <<seen, report>>

\* startMonitor: one iteration of the loop, server.startRecord(monitor_key)
StartRecord ==
    /\ pc = "startRecord"
    /\ mi <= Len(monitor_hosts)
    /\ LET host == monitor_hosts[mi]
       IN  \E ok \in BOOLEAN :
             /\ server' = Call("startRecord", host, monitor_key, ok)
             /\ history' = Append(history, Rpc("startRecord", host, ok))
             /\ IF ok
                THEN new_hosts' = Append(new_hosts, host) /\ UNCHANGED unreachable
                ELSE unreachable' = unreachable \cup {host} /\ UNCHANGED new_hosts
    /\ mi' = mi + 1
    /\ UNCHANGED <<cycles, pc, iter, totals, stat, thr, flags, counters, wlocals,
                   monitor_hosts, stop_failed, log>>
    /\ UNCHANGED <<seen, report>>

\* Faulty variant: the filtered list is not assigned to self.monitor_hosts.
StartMonitorEnd_keeps_hosts ==
    /\ pc = "startRecord"
    /\ mi > Len(monitor_hosts)
    /\ new_hosts' = <<>>
    /\ mi' = 0
    /\ server' = NoCall
    /\ pc' = "startThreads"
    /\ UNCHANGED <<cycles, iter, totals, stat, thr, flags, counters, wlocals,
                   monitor_hosts, unreachable, stop_failed, log>>
    /\ UNCHANGED ghost

\* startMonitor: self.monitor_hosts = monitor_hosts
StartMonitorEnd ==
    /\ pc = "startRecord"
    /\ mi > Len(monitor_hosts)
    /\ monitor_hosts' = new_hosts
    /\ new_hosts' = <<>>
    /\ mi' = 0
    /\ server' = NoCall
    /\ pc' = "startThreads"
    /\ UNCHANGED <<cycles, iter, totals, stat, thr, flags, counters, wlocals,
                   unreachable, stop_failed, log>>
    /\ UNCHANGED ghost

\* startThreads: set_running_flag(True)
SetRunning ==
    /\ pc = "startThreads"
    /\ threads' = <<>>
    /\ running' = TRUE
    /\ pc' = "clear_recording"
    /\ UNCHANGED <<cycles, iter, totals, stat, self_threads, ji, recording,
                   counters, wlocals, monitor, log>>
    /\ history' = Append(history, Ev("startThreads"))
    /\ UNCHANGED <<seen, report>>

\* startThreads: set_recording_flag(False)
ClearRecording ==
    /\ pc = "clear_recording"
    /\ recording' = FALSE
    /\ pc' = "spawn"
    /\ UNCHANGED <<cycles, iter, totals, stat, thr, running, counters, wlocals, monitor, log>>
    /\ UNCHANGED ghost

\* Faulty variant: a failed start signals the workers already started.
Spawn_rollback ==
    /\ pc = "spawn"
    /\ Len(threads) < cvus
    /\ LET thread == <<cycle, Len(threads)>>
       IN  \/ /\ pcw' = [pcw EXCEPT ![thread] = "loop"]
              /\ threads' = Append(threads, thread)
              /\ pc' = pc
              /\ history' = Append(history, Ev("spawn"))
              /\ UNCHANGED running
           \/ /\ pc' = "aborted"
              /\ UNCHANGED history
              /\ running' = FALSE
              /\ UNCHANGED <<pcw, threads>>
    /\ UNCHANGED <<cycles, iter, totals, stat, self_threads, ji, recording, counters,
                   result, tmp, monitor, log>>
    /\ UNCHANGED <<seen, report>>

\* startThreads: one iteration of the loop; thread.start() starts the worker
\* or raises ThreadError, which run does not catch
Spawn ==
    /\ pc = "spawn"
    /\ Len(threads) < cvus
    /\ LET thread == <<cycle, Len(threads)>>
       IN  \/ /\ pcw' = [pcw EXCEPT ![thread] = "loop"]
              /\ threads' = Append(threads, thread)
              /\ pc' = pc
              /\ history' = Append(history, Ev("spawn"))
           \/ /\ pc' = "aborted"
              /\ UNCHANGED history
              /\ UNCHANGED <<pcw, threads>>
    /\ UNCHANGED <<cycles, iter, totals, stat, self_threads, ji, flags, counters,
                   result, tmp, monitor, log>>
    /\ UNCHANGED <<seen, report>>

\* Faulty variant: the loop stops one thread short.
SpawnDone_one_short ==
    /\ pc = "spawn"
    /\ Len(threads) + 1 >= cvus
    /\ self_threads' = threads
    /\ threads' = <<>>
    /\ pc' = "logging"
    /\ UNCHANGED <<cycles, iter, totals, stat, ji, flags, counters, wlocals, monitor, log>>
    /\ UNCHANGED ghost

\* startThreads: self.threads = threads
SpawnDone ==
    /\ pc = "spawn"
    /\ Len(threads) >= cvus
    /\ self_threads' = threads
    /\ threads' = <<>>
    /\ pc' = "logging"
    /\ UNCHANGED <<cycles, iter, totals, stat, ji, flags, counters, wlocals, monitor, log>>
    /\ UNCHANGED ghost

\* logging: set_recording_flag(True)
LoggingStart ==
    /\ pc = "logging"
    /\ recording' = TRUE
    /\ pc' = "logging_wait"
    /\ UNCHANGED <<cycles, iter, totals, stat, thr, running, counters, wlocals, monitor, log>>
    /\ history' = Append(history, Ev("recording_on"))
    /\ UNCHANGED <<seen, report>>

\* Faulty variant: the recording flag is left set.
LoggingEnd_keeps_recording ==
    /\ pc = "logging_wait"
    /\ pc' = "stopThreads"
    /\ UNCHANGED <<cycles, iter, totals, stat, thr, flags, counters, wlocals, monitor, log>>
    /\ history' = Append(history, Ev("recording_off"))
    /\ UNCHANGED <<seen, report>>

\* logging: the duration has elapsed, set_recording_flag(False)
LoggingEnd ==
    /\ pc = "logging_wait"
    /\ recording' = FALSE
    /\ pc' = "stopThreads"
    /\ UNCHANGED <<cycles, iter, totals, stat, thr, running, counters, wlocals, monitor, log>>
    /\ history' = Append(history, Ev("recording_off"))
    /\ UNCHANGED <<seen, report>>

\* Faulty variant: the running flag is left set.
StopThreads_keeps_running ==
    /\ pc = "stopThreads"
    /\ ji' = 0
    /\ pc' = "join"
    /\ UNCHANGED <<cycles, iter, totals, stat, threads, self_threads, flags,
                   counters, wlocals, monitor, log>>
    /\ history' = Append(history, Ev("running_off"))
    /\ UNCHANGED <<seen, report>>

\* stopThreads: set_running_flag(False)
StopThreads ==
    /\ pc = "stopThreads"
    /\ running' = FALSE
    /\ ji' = 0
    /\ pc' = "join"
    /\ UNCHANGED <<cycles, iter, totals, stat, threads, self_threads, recording,
                   counters, wlocals, monitor, log>>
    /\ history' = Append(history, Ev("running_off"))
    /\ UNCHANGED <<seen, report>>

\* Faulty variant: the thread is not waited for.
Join_no_wait ==
    /\ pc = "join"
    /\ ji < Len(self_threads)
    /\ ji' = ji + 1
    /\ UNCHANGED <<cycles, pc, iter, totals, stat, threads, self_threads, flags,
                   counters, wlocals, monitor, log>>
    /\ history' = Append(history, Ev("join"))
    /\ UNCHANGED <<seen, report>>

\* stopThreads: thread.join() returns once that thread has left its loop
Join ==
    /\ pc = "join"
    /\ ji < Len(self_threads)
    /\ pcw[self_threads[ji + 1]] = "done"
    /\ ji' = ji + 1
    /\ UNCHANGED <<cycles, pc, iter, totals, stat, threads, self_threads, flags,
                   counters, wlocals, monitor, log>>
    /\ history' = Append(history, Ev("join"))
    /\ UNCHANGED <<seen, report>>

\* stopThreads: del self.threads
JoinDone ==
    /\ pc = "join"
    /\ ji >= Len(self_threads)
    /\ self_threads' = <<>>
    /\ ji' = 0
    /\ pc' = "cycle_sleep"
    /\ UNCHANGED <<cycles, iter, totals, stat, threads, flags, counters, wlocals, monitor, log>>
    /\ UNCHANGED ghost

\* Faulty variant: stopMonitor is not called.
CycleSleep_skips_monitor ==
    /\ pc = "cycle_sleep"
    /\ pc' = "tearDownCycle"
    /\ UNCHANGED <<cycles, iter, totals, stat, thr, flags, counters, wlocals, monitor, log>>
    /\ history' = Append(history, Ev("sleep"))
    /\ UNCHANGED <<seen, report>>

\* stopThreads: time.sleep(self.cycle_time)
CycleSleep ==
    /\ pc = "cycle_sleep"
    /\ pc' = "stopMonitor"
    /\ UNCHANGED <<cycles, iter, totals, stat, thr, flags, counters, wlocals, monitor, log>>
    /\ history' = Append(history, Ev("sleep"))
    /\ UNCHANGED <<seen, report>>

\* stopMonitor: no host active, or the loop is entered
StopMonitor ==
    /\ pc = "stopMonitor"
    /\ IF monitor_hosts = <<>>
       THEN pc' = "tearDownCycle" /\ UNCHANGED mi
       ELSE pc' = "stopRecord" /\ mi' = 1
    /\ UNCHANGED <<cycles, iter, totals, stat, thr, flags, counters, wlocals,
                   monitor_hosts, new_hosts, server, unreachable, stop_failed, log>>
    /\ history' = Append(history, Ev("stopMonitor"))
    /\ UNCHANGED <<seen, report>>

\* Faulty variant: getXmlResult is called although stopRecord failed.
StopRecord_no_skip ==
    /\ pc = "stopRecord"
    /\ mi <= Len(monitor_hosts)
    /\ LET host == monitor_hosts[mi]
       IN  \E ok \in BOOLEAN :
             /\ server' = Call("stopRecord", host, monitor_key, ok)
             /\ history' = Append(history, Rpc("stopRecord", host, ok))
             /\ pc' = "getXmlResult"
             /\ IF ok
                THEN UNCHANGED stop_failed
                ELSE stop_failed' = stop_failed \cup {host}
    /\ UNCHANGED <<cycles, iter, totals, stat, thr, flags, counters, wlocals,
                   monitor_hosts, mi, new_hosts, unreachable, log>>
    /\ UNCHANGED <<seen, report>>

\* stopMonitor: server.stopRecord(monitor_key); SocketError skips to the next host
StopRecord ==
    /\ pc = "stopRecord"
    /\ mi <= Len(monitor_hosts)
    /\ LET host == monitor_hosts[mi]
       IN  \E ok \in BOOLEAN :
             /\ server' = Call("stopRecord", host, monitor_key, ok)
             /\ history' = Append(history, Rpc("stopRecord", host, ok))
             /\ IF ok
                THEN pc' = "getXmlResult" /\ UNCHANGED <<mi, stop_failed>>
                ELSE /\ stop_failed' = stop_failed \cup {host}
                     /\ mi' = mi + 1
                     /\ pc' = pc
    /\ UNCHANGED <<cycles, iter, totals, stat, thr, flags, counters, wlocals,
                   monitor_hosts, new_hosts, unreachable, log>>
    /\ UNCHANGED <<seen, report>>

\* Faulty variant: the payload is logged whether or not the fetch succeeded.
GetXmlResult_logs_always ==
    /\ pc = "getXmlResult"
    /\ LET host == monitor_hosts[mi]
       IN  \E ok \in BOOLEAN :
             /\ server' = Call("getXmlResult", host, monitor_key, ok)
             /\ history' = Append(history, Rpc("getXmlResult", host, ok))
             /\ log' = Append(log, Payload(host, monitor_key))
             /\ IF ok
                THEN UNCHANGED stop_failed
                ELSE stop_failed' = stop_failed \cup {host}
    /\ mi' = mi + 1
    /\ pc' = "stopRecord"
    /\ UNCHANGED <<cycles, iter, totals, stat, thr, flags, counters, wlocals,
                   monitor_hosts, new_hosts, unreachable>>
    /\ UNCHANGED <<seen, report>>

\* stopMonitor: xml = server.getXmlResult(monitor_key); self.logr(xml) on success
GetXmlResult ==
    /\ pc = "getXmlResult"
    /\ LET host == monitor_hosts[mi]
       IN  \E ok \in BOOLEAN :
             /\ server' = Call("getXmlResult", host, monitor_key, ok)
             /\ history' = Append(history, Rpc("getXmlResult", host, ok))
             /\ IF ok
                THEN log' = Append(log, Payload(host, monitor_key)) /\ UNCHANGED stop_failed
                ELSE stop_failed' = stop_failed \cup {host} /\ UNCHANGED log
    /\ mi' = mi + 1
    /\ pc' = "stopRecord"
    /\ UNCHANGED <<cycles, iter, totals, stat, thr, flags, counters, wlocals,
                   monitor_hosts, new_hosts, unreachable>>
    /\ UNCHANGED <<seen, report>>

\* stopMonitor: the loop is over
StopMonitorEnd ==
    /\ pc = "stopRecord"
    /\ mi > Len(monitor_hosts)
    /\ mi' = 0
    /\ server' = NoCall
    /\ pc' = "tearDownCycle"
    /\ UNCHANGED <<cycles, iter, totals, stat, thr, flags, counters, wlocals,
                   monitor_hosts, new_hosts, unreachable, stop_failed, log>>
    /\ UNCHANGED ghost

\* cycle += 1; self.test.tearDownCycle()
TearDownCycle ==
    /\ pc = "tearDownCycle"
    /\ cycle' = cycle + 1
    /\ pc' = "cycle_result"
    /\ UNCHANGED <<cycles, cvus, monitor_key, totals, stat, thr, flags, counters,
                   wlocals, monitor, log>>
    /\ history' = Append(history, Ev("tearDownCycle"))
    /\ UNCHANGED <<seen, report>>

\* Faulty variant: the error total is overwritten instead of accumulated.
CycleResult_drops_errors ==
    /\ pc = "cycle_result"
    /\ LET r == get_cycle_results
           st == get_status(r[1], r[2], r[3])
       IN  /\ status' = st[1]
           /\ code' = st[2]
           /\ total_success' = total_success + r[1]
           /\ total_failures' = total_failures + r[2]
           /\ total_errors' = r[3]
    /\ pc' = "for"
    /\ UNCHANGED <<cycles, iter, thr, flags, counters, wlocals, monitor, log>>
    /\ report' = report \cup {get_status(g_success, g_failures, g_errors)[1]}
    /\ UNCHANGED <<history, seen>>

\* get_cycle_results, get_status and the totals at the end of the loop body
CycleResult ==
    /\ pc = "cycle_result"
    /\ LET r == get_cycle_results
           st == get_status(r[1], r[2], r[3])
       IN  /\ status' = st[1]
           /\ code' = st[2]
           /\ total_success' = total_success + r[1]
           /\ total_failures' = total_failures + r[2]
           /\ total_errors' = total_errors + r[3]
    /\ pc' = "for"
    /\ UNCHANGED <<cycles, iter, thr, flags, counters, wlocals, monitor, log>>
    /\ report' = report \cup {get_status(g_success, g_failures, g_errors)[1]}
    /\ UNCHANGED <<history, seen>>

\* the loop is over: logr_close
LogrClose ==
    /\ pc = "for"
    /\ cycle >= Len(cycles)
    /\ log' = Append(log, CloseTag)
    /\ pc' = "bench_result"
    /\ UNCHANGED <<cycles, iter, totals, stat, thr, flags, counters, wlocals, monitor>>
    /\ UNCHANGED ghost

\* status, code = get_status(totals); return code
BenchResult ==
    /\ pc = "bench_result"
    /\ LET st == get_status(total_success, total_failures, total_errors)
       IN  status' = st[1] /\ code' = st[2]
    /\ pc' = "done"
    /\ UNCHANGED <<cycles, iter, totals, thr, flags, counters, wlocals, monitor, log>>
    /\ UNCHANGED ghost

----------------------------------------------------------------------------
\* LoopTestRunner.run, one worker thread

\* while (running()):
WLoop(w) ==
    /\ pcw[w] = "loop"
    /\ \/ /\ running
          /\ Counted < MaxCount
          /\ pcw' = [pcw EXCEPT ![w] = "test"]
       \/ /\ ~running
          /\ pcw' = [pcw EXCEPT ![w] = "done"]
    /\ UNCHANGED <<cycles, pc, iter, totals, stat, thr, flags, counters, result, tmp,
                   monitor, log>>
    /\ UNCHANGED ghost

\* Faulty variant: the error branch counts without reading recording().
WTest_error_unguarded(w) ==
    /\ pcw[w] = "test"
    /\ \E outcome \in Outcomes :
       /\ seen' = IF recording THEN [seen EXCEPT ![outcome] = @ + 1] ELSE seen
       /\ IF recording \/ outcome = "error"
          THEN /\ pcw' = [pcw EXCEPT ![w] = "load"]
               /\ result' = [result EXCEPT ![w] = outcome]
          ELSE /\ pcw' = [pcw EXCEPT ![w] = "sleep"]
               /\ UNCHANGED result
    /\ UNCHANGED <<cycles, pc, iter, totals, stat, thr, flags, counters, tmp, monitor, log>>
    /\ UNCHANGED <<history, report>>

\* Faulty variant: an error of the workload ends the thread.
WTest_error_kills(w) ==
    /\ pcw[w] = "test"
    /\ \E outcome \in Outcomes :
       /\ seen' = IF recording THEN [seen EXCEPT ![outcome] = @ + 1] ELSE seen
       /\ IF outcome = "error"
          THEN /\ pcw' = [pcw EXCEPT ![w] = "done"]
               /\ UNCHANGED result
          ELSE IF recording
          THEN /\ pcw' = [pcw EXCEPT ![w] = "load"]
               /\ result' = [result EXCEPT ![w] = outcome]
          ELSE /\ pcw' = [pcw EXCEPT ![w] = "sleep"]
               /\ UNCHANGED result
    /\ UNCHANGED <<cycles, pc, iter, totals, stat, thr, flags, counters, tmp, monitor, log>>
    /\ UNCHANGED <<history, report>>

\* self.test(test_result); the result is classified and recording() is read
WTest(w) ==
    /\ pcw[w] = "test"
    /\ \E outcome \in Outcomes :
       /\ seen' = IF recording THEN [seen EXCEPT ![outcome] = @ + 1] ELSE seen
       /\ IF recording
          THEN /\ pcw' = [pcw EXCEPT ![w] = "load"]
               /\ result' = [result EXCEPT ![w] = outcome]
          ELSE /\ pcw' = [pcw EXCEPT ![w] = "sleep"]
               /\ UNCHANGED result
    /\ UNCHANGED <<cycles, pc, iter, totals, stat, thr, flags, counters, tmp, monitor, log>>
    /\ UNCHANGED <<history, report>>

\* add_cycle_result: the counter is loaded
WLoad(w) ==
    /\ pcw[w] = "load"
    /\ tmp' = [tmp EXCEPT ![w] = LoadCounter(result[w])]
    /\ pcw' = [pcw EXCEPT ![w] = "store"]
    /\ UNCHANGED <<cycles, pc, iter, totals, stat, thr, flags, counters, result, monitor, log>>
    /\ UNCHANGED ghost

\* Faulty variant: the counter is stepped by two.
WStore_adds_two(w) ==
    /\ pcw[w] = "store"
    /\ StoreCounter(result[w], tmp[w] + 2)
    /\ pcw' = [pcw EXCEPT ![w] = "sleep"]
    /\ result' = [result EXCEPT ![w] = "none"]
    /\ tmp' = [tmp EXCEPT ![w] = 0]
    /\ UNCHANGED <<cycles, pc, iter, totals, stat, thr, flags, monitor, log>>
    /\ UNCHANGED ghost

\* add_cycle_result: the incremented value is stored
WStore(w) ==
    /\ pcw[w] = "store"
    /\ StoreCounter(result[w], tmp[w] + 1)
    /\ pcw' = [pcw EXCEPT ![w] = "sleep"]
    /\ result' = [result EXCEPT ![w] = "none"]
    /\ tmp' = [tmp EXCEPT ![w] = 0]
    /\ UNCHANGED <<cycles, pc, iter, totals, stat, thr, flags, monitor, log>>
    /\ UNCHANGED ghost

\* Faulty variant: after the sleep the body is entered without testing running().
WSleep_skips_check(w) ==
    /\ pcw[w] = "sleep"
    /\ pcw' = [pcw EXCEPT ![w] = "test"]
    /\ UNCHANGED <<cycles, pc, iter, totals, stat, thr, flags, counters, result, tmp,
                   monitor, log>>
    /\ UNCHANGED ghost

\* thread_sleep(self.sleep_time)
WSleep(w) ==
    /\ pcw[w] = "sleep"
    /\ pcw' = [pcw EXCEPT ![w] = "loop"]
    /\ UNCHANGED <<cycles, pc, iter, totals, stat, thr, flags, counters, result, tmp,
                   monitor, log>>
    /\ UNCHANGED ghost

Worker(w) == WLoop(w) \/ WTest(w) \/ WLoad(w) \/ WStore(w) \/ WSleep(w)

Scheduler ==
    \/ LogrOpen \/ ForCycle \/ SetUpCycle
    \/ StartMonitor \/ StartRecord \/ StartMonitorEnd
    \/ SetRunning \/ ClearRecording \/ Spawn \/ SpawnDone
    \/ LoggingStart \/ LoggingEnd
    \/ StopThreads \/ Join \/ JoinDone \/ CycleSleep
    \/ StopMonitor \/ StopRecord \/ GetXmlResult \/ StopMonitorEnd
    \/ TearDownCycle \/ CycleResult \/ LogrClose \/ BenchResult

Next == Scheduler \/ \E w \in Workers : Worker(w)

Spec == Init /\ [][Next]_vars

\* Every thread that can take a step eventually takes one: the workload and the
\* pacing sleep of a worker return, and the operating system schedules every
\* thread.
Fairness ==
    /\ WF_vars(Scheduler)
    /\ \A w \in Workers : WF_vars(Worker(w))

\* The runs checked for liveness.
InitFair == Init /\ Len(cycles) + Len(monitor_hosts) <= MaxFairSize

FairSpec == InitFair /\ [][Next]_vars /\ Fairness

----------------------------------------------------------------------------
\* Properties

Live(w) == pcw[w] \notin {"none", "done"}
Started(c) == {w \in Workers : w[1] = c /\ pcw[w] # "none"}
IsCall(c) == c.method # "none"
Count(ev) == Cardinality({i \in 1..Len(log) : log[i].ev = ev})

\* C1: a run that returns has executed as many cycles as the list is long, and
\* in the recording window of cycle i exactly cycles[i] workers of that cycle
\* have been started, none of which has terminated.
C1_CyclesAndLiveWorkers ==
    /\ recording =>
          /\ cycle < Len(cycles)
          /\ cvus = cycles[cycle + 1]
          /\ Cardinality(Started(cycle)) = cycles[cycle + 1]
          /\ \A w \in Started(cycle) : Live(w)
          /\ Range(self_threads) = Started(cycle)
    /\ pc = "done" => cycle = Len(cycles)
    /\ cycle <= Len(cycles)

C1_Witness ==
    /\ recording
    /\ cycles = <<1, 2>>
    /\ cycle = 1
    /\ Cardinality(Started(1)) = 2

\* C2: in every reachable state, also of an aborted run, the recording flag
\* is set only while the running flag is set.
C2_RecordingImpliesRunning == recording => running

C2_Witness == recording /\ running /\ cycle = 1 /\ \E w \in Workers : pcw[w] = "store"

\* C3: an iteration that finds the recording flag false goes to its sleep
\* without touching the counters, and the counters are changed by nothing
\* but the reset and the store of an iteration that found the flag true.
C3_NoCountWhenNotRecording ==
    [][ /\ \A w \in Workers :
             (pcw[w] = "test" /\ ~recording /\ pcw'[w] # pcw[w])
                 => (pcw'[w] = "sleep" /\ counters' = counters)
        /\ \A w \in Workers :
             (pcw[w] = "sleep" /\ pcw'[w] # pcw[w])
                 => (pcw'[w] = "loop" /\ counters' = counters)
        /\ \A w \in Workers :
             pcw'[w] = "load" => (pcw[w] = "load" \/ (pcw[w] = "test" /\ recording))
        /\ (counters' # counters) =>
             \/ pc = "for" /\ pc' = "setUpCycle"
             \/ \E w \in Workers : pcw[w] = "store" /\ pcw'[w] = "sleep"
      ]_vars

C3_Witness ==
    /\ pc = "spawn"
    /\ Len(threads) = 2
    /\ \A i \in 1..2 : pcw[threads[i]] = "sleep"
    /\ Counted = 0

\* C4: the workers of a cycle have all terminated before the counters are
\* reset for the next cycle, and no worker of a cycle exists before the
\* reset of that cycle: only workers of the current cycle are ever alive.
C4_NoWorkerAcrossCycles ==
    /\ \A w \in Workers : w[1] # cycle => ~Live(w)
    /\ pc \in {"for", "setUpCycle", "startMonitor", "startRecord", "startThreads",
               "clear_recording"} => \A w \in Workers : ~Live(w)
    /\ pc = "for" => \A w \in Workers : w[1] >= cycle => pcw[w] = "none"

C4_Witness ==
    /\ pc = "for"
    /\ cycle = 1
    /\ Len(cycles) = 2
    /\ pcw[<<0, 0>>] = "done"
    /\ pcw[<<0, 1>>] = "done"
    /\ Counted > 0

\* C5: get_status gives ERROR and -1 when there are errors, otherwise FAILURE
\* and 1 when there are failures, otherwise success and 0; run returns the
\* code of the totals, and each cycle's status is that of its counters.
C5_StatusPrecedence ==
    /\ \A s \in 0..MaxCount, f \in 0..MaxCount, e \in 0..MaxCount :
          LET st == get_status(s, f, e)
          IN  /\ e > 0 => st = <<"ERROR", -1>>
              /\ (e = 0 /\ f > 0) => st = <<"FAILURE", 1>>
              /\ (e = 0 /\ f = 0) => st = <<"SUCCESSFULL", 0>>
    /\ pc = "done" =>
          /\ (code = -1) <=> (total_errors > 0)
          /\ (code = 1) <=> (total_errors = 0 /\ total_failures > 0)
          /\ (code = 0) <=> (total_errors = 0 /\ total_failures = 0)
          /\ (status = "ERROR") <=> (code = -1)
          /\ (status = "FAILURE") <=> (code = 1)
    /\ (pc = "for" /\ cycle > 0) =>
          /\ (status = "ERROR") <=> (g_errors > 0)
          /\ (status = "FAILURE") <=> (g_errors = 0 /\ g_failures > 0)

C5_Witness ==
    /\ pc = "done"
    /\ total_errors > 0
    /\ total_failures > 0
    /\ code = -1

\* C6: a host whose startRecord failed is sent no further call in that cycle
\* or later, the failure leaves the scheduler in the monitor loop (the run
\* goes on), and the active host list never grows.
C6_UnreachableDropped ==
    [][ /\ (server' # server /\ IsCall(server')) => server'.host \notin unreachable
        /\ Range(monitor_hosts') \subseteq Range(monitor_hosts)
        /\ Len(monitor_hosts') <= Len(monitor_hosts)
        /\ (server' # server /\ server'.method = "startRecord" /\ ~server'.ok)
              => (pc' = "startRecord" /\ mi' = mi + 1)
        /\ pc' # "startRecord" => Range(monitor_hosts') \cap unreachable' = {}
      ]_vars

C6_Witness ==
    /\ cycle = 1
    /\ unreachable = {1}
    /\ server = Call("stopRecord", 2, <<1, 1>>, TRUE)
    /\ pc = "getXmlResult"

\* C7 as stated: a host whose stopRecord or getXmlResult failed is sent no
\* further call.
C7_StopFailureExcluded ==
    [][ (server' # server /\ IsCall(server')) => server'.host \notin stop_failed ]_vars

\* C7 as the code has it: a failure at stop time moves on to the next host
\* with nothing forwarded to the log and the host list unchanged, so the host
\* stays active: every host that failed at stop and never failed at start is
\* still in self.monitor_hosts.
C7_StopFailureKeepsHost ==
    [][ /\ (server' # server /\ server'.method \in {"stopRecord", "getXmlResult"}
              /\ ~server'.ok)
            => /\ pc' = "stopRecord"
               /\ mi' = mi + 1
               /\ log' = log
               /\ monitor_hosts' = monitor_hosts
               /\ server'.host \in stop_failed'
        /\ (stop_failed' \ unreachable') \subseteq Range(monitor_hosts')
      ]_vars

C7_Witness ==
    /\ server.method = "startRecord"
    /\ server.host \in stop_failed
    /\ server.ok
    /\ cycle = 1

\* C8 as stated: the log is opened once before any cycle and closed once when
\* the run is over, aborted or not, and every payload lies between the two.
C8_OneOpenClosePair ==
    /\ Count("open") <= 1
    /\ Count("close") <= 1
    /\ pc # "logr_open" => (Len(log) >= 1 /\ log[1] = OpenTag)
    /\ pc \in {"bench_result", "done", "aborted"} => log[Len(log)] = CloseTag
    /\ pc \notin {"bench_result", "done", "aborted"} => Count("close") = 0

\* C9: when thread.start() fails the run is left at once: the workers started
\* so far are fewer than the cycle asks for, stay alive and unjoined under a
\* set running flag, the recording flag stays clear, the counters stay zero,
\* and the scheduler does nothing more.
AbortedState ==
    /\ running
    /\ ~recording
    /\ Len(threads) < cvus
    /\ Started(cycle) = Range(threads)
    /\ \A w \in Range(threads) : Live(w)
    /\ self_threads = <<>>
    /\ Counted = 0
    /\ cycle < Len(cycles)
    /\ Count("close") = 0

C9_SpawnFailureAborts ==
    [][ /\ (pc' = "aborted" /\ pc # "aborted") => (pc = "spawn" /\ AbortedState')
        /\ pc = "aborted" =>
              /\ AbortedState /\ AbortedState'
              /\ pc' = "aborted"
              /\ UNCHANGED <<cycles, iter, totals, stat, thr, flags, counters, monitor, log>>
      ]_vars

C9_Witness ==
    /\ pc = "aborted"
    /\ cycle = 1
    /\ Len(threads) = 1
    /\ pcw[threads[1]] = "sleep"

\* C10: a worker leaves its loop only at the loop test with the running flag
\* clear; whatever the outcome of an iteration, it goes on to its sleep and
\* back to the loop test, which it passes while the flag is set; and a step
\* of one worker moves no other worker.
C10_OutcomeNeverEndsWorker ==
    [][ \A w \in Workers :
          /\ (pcw'[w] = "done" /\ pcw[w] # "done") => (pcw[w] = "loop" /\ ~running)
          /\ (pcw[w] = "test" /\ pcw'[w] # pcw[w]) => pcw'[w] \in {"load", "sleep"}
          /\ (pcw[w] = "load" /\ pcw'[w] # pcw[w]) => pcw'[w] = "store"
          /\ (pcw[w] = "store" /\ pcw'[w] # pcw[w]) => pcw'[w] = "sleep"
          /\ (pcw[w] = "sleep" /\ pcw'[w] # pcw[w]) => pcw'[w] = "loop"
          /\ (pcw[w] = "loop" /\ running /\ pcw'[w] # pcw[w]) => pcw'[w] = "test"
          /\ (Live(w) /\ pcw'[w] # pcw[w]) =>
                \A v \in Workers \ {w} : pcw'[v] = pcw[v]
      ]_vars

C10_Witness ==
    /\ running
    /\ g_errors = 1
    /\ g_failures = 0
    /\ g_success = 0
    /\ cvus = 1
    /\ pcw[<<cycle, 0>>] = "test"

\* C11: once stopThreads has cleared the running flag, every worker of the
\* cycle terminates and the join loop completes, given that every thread
\* that can step does step (FairSpec).
C11_JoinCompletes ==
    (pc = "join") ~> (pc = "cycle_sleep" /\ \A w \in Workers : ~Live(w))

C11_Witness ==
    /\ pc = "cycle_sleep"
    /\ cycle = 1
    /\ cvus = 2
    /\ \A w \in Started(1) : pcw[w] = "done"
    /\ Cardinality(Started(1)) = 2

\* C13 as stated: at the end of a cycle each counter read by get_cycle_results
\* equals the number of iterations of its class that read recording() true.
C13_NoIncrementLost ==
    pc = "cycle_result" =>
        /\ g_success = seen["success"]
        /\ g_failures = seen["failure"]
        /\ g_errors = seen["error"]

\* C13 as the code has it: the increment is a load and a store, so at the end
\* of a cycle each counter is at most the number of iterations of its class
\* that read recording() true, at least 1 when that number is positive, and
\* equal to it when the cycle had a single worker.
C13_CountAtMostSeen ==
    pc = "cycle_result" =>
        /\ g_success <= seen["success"]
        /\ g_failures <= seen["failure"]
        /\ g_errors <= seen["error"]
        /\ seen["success"] > 0 => g_success > 0
        /\ seen["failure"] > 0 => g_failures > 0
        /\ seen["error"] > 0 => g_errors > 0
        /\ cvus <= 1 => get_cycle_results = <<seen["success"], seen["failure"], seen["error"]>>

C13_Witness ==
    /\ pc = "cycle_result"
    /\ cvus = 2
    /\ seen["error"] = 2
    /\ g_errors = 1

Ops(op) == {i \in 1..Len(history) : history[i].op = op}
Precedes(a, b) == \A i \in Ops(a), j \in Ops(b) : i < j
MonitorOps == {"stopMonitor", "stopRecord", "getXmlResult"}

\* C14 as stated: in a cycle the running flag is cleared, then the workers
\* are joined, then monitoring is stopped, then tearDownCycle is called, and
\* only then does the inter-cycle sleep begin.
C14_SleepAfterTearDown ==
    /\ Precedes("running_off", "join")
    /\ Precedes("join", "stopMonitor")
    /\ Precedes("stopMonitor", "tearDownCycle")
    /\ Precedes("stopRecord", "sleep")
    /\ Precedes("tearDownCycle", "sleep")
    /\ Ops("sleep") # {} => (Ops("stopMonitor") # {} /\ Ops("tearDownCycle") # {})

\* C14 as the code has it: the running flag is cleared, every worker is
\* joined, the inter-cycle sleep is taken inside stopThreads, and only then
\* is monitoring stopped (every stopRecord and getXmlResult) and, last,
\* tearDownCycle called.
C14_SleepBeforeStopMonitor ==
    /\ Precedes("recording_off", "running_off")
    /\ Precedes("running_off", "join")
    /\ Precedes("join", "sleep")
    /\ \A m \in MonitorOps : Precedes("sleep", m) /\ Precedes(m, "tearDownCycle")
    /\ Precedes("stopMonitor", "stopRecord")
    /\ Ops("sleep") # {} =>
          /\ Cardinality(Ops("running_off")) = 1
          /\ Cardinality(Ops("join")) = cvus
    /\ (\E m \in MonitorOps : Ops(m) # {}) => Cardinality(Ops("sleep")) = 1
    /\ Ops("tearDownCycle") # {} =>
          /\ Cardinality(Ops("sleep")) = 1
          /\ Cardinality(Ops("stopMonitor")) = 1
          /\ pc \in {"cycle_result", "for", "bench_result", "done"}

C14_Witness ==
    /\ pc = "cycle_result"
    /\ cvus = 2
    /\ Cardinality(Ops("join")) = 2
    /\ \E i \in Ops("stopRecord") : history[i].ok
    /\ \E i \in Ops("getXmlResult") : history[i].ok

\* C15: in every cycle that runs to its end setUpCycle and tearDownCycle are
\* each called once; the cycle starts with the reset, then setUpCycle, then
\* startMonitor, and only then is the first worker started; tearDownCycle is
\* called only when every worker of the cycle has terminated.
C15_SetUpTearDownOnce ==
    /\ Cardinality(Ops("setUpCycle")) <= 1
    /\ Cardinality(Ops("tearDownCycle")) <= 1
    /\ Len(history) >= 1 => history[1].op = "reset"
    /\ Len(history) >= 2 => history[2].op = "setUpCycle"
    /\ Len(history) >= 3 => history[3].op = "startMonitor"
    /\ Cardinality(Ops("reset")) <= 1
    /\ Precedes("startMonitor", "spawn")
    /\ Precedes("startRecord", "spawn")
    /\ Precedes("spawn", "tearDownCycle")
    /\ Precedes("join", "tearDownCycle")
    /\ (\E w \in Workers : Live(w)) => Ops("spawn") # {}
    /\ Ops("tearDownCycle") # {} =>
          /\ \A w \in Workers : ~Live(w)
          /\ Cardinality(Ops("spawn")) = cvus
          /\ Cardinality(Ops("join")) = cvus
    /\ pc = "cycle_result" =>
          /\ Cardinality(Ops("setUpCycle")) = 1
          /\ Cardinality(Ops("tearDownCycle")) = 1

C15_Witness ==
    /\ pc = "cycle_result"
    /\ cycle = 2
    /\ cvus = 2
    /\ Cardinality(Ops("spawn")) = 2
    /\ \A w \in Workers : pcw[w] = "done"

RpcAt(op, h, ok) ==
    {i \in Ops(op) : history[i].host = h /\ history[i].ok = ok}
Hosts == 1..MaxHosts
Payloads(h) ==
    {i \in 1..Len(log) : log[i] = Payload(h, monitor_key)}

\* C16: in a cycle that is not aborted every host whose startRecord(key)
\* succeeded gets stopRecord(key) and, if that succeeded, getXmlResult(key),
\* all with the key of the cycle (zero-based cycle index and number of
\* virtual users), after the workers are joined and before the next cycle
\* starts; a payload is logged only when the stop and the fetch both
\* succeeded.
C16_MonitorProtocol ==
    /\ IsCall(server) => server.key = monitor_key
    /\ Len(history) > 0 =>
          LET index == IF Ops("tearDownCycle") # {} THEN cycle - 1 ELSE cycle
          IN  monitor_key = <<index, cycles[index + 1]>>
    /\ server.method = "stopRecord" =>
          /\ RpcAt("startRecord", server.host, TRUE) # {}
          /\ \A w \in Workers : ~Live(w)
          /\ Cardinality(Ops("join")) = cvus
    /\ Precedes("startRecord", "stopRecord")
    /\ Precedes("join", "stopRecord")
    /\ \A i \in Ops("stopRecord") :
          /\ RpcAt("startRecord", history[i].host, TRUE) # {}
          /\ history[i].ok =>
                IF i = Len(history)
                THEN pc = "getXmlResult"
                ELSE /\ history[i + 1].op = "getXmlResult"
                     /\ history[i + 1].host = history[i].host
    /\ \A i \in Ops("getXmlResult") :
          /\ i > 1
          /\ history[i - 1] = Rpc("stopRecord", history[i].host, TRUE)
    /\ \A h \in Hosts :
          /\ Cardinality(Payloads(h)) = Cardinality(RpcAt("getXmlResult", h, TRUE))
          /\ Cardinality(Payloads(h)) <= 1
          /\ Cardinality(Ops("stopRecord") \cap {i \in 1..Len(history) : history[i].host = h}) <= 1
    /\ pc \in {"tearDownCycle", "cycle_result"} =>
          \A h \in Hosts :
              RpcAt("startRecord", h, TRUE) # {} =>
                  RpcAt("stopRecord", h, TRUE) \cup RpcAt("stopRecord", h, FALSE) # {}

C16_Witness ==
    /\ pc = "tearDownCycle"
    /\ cycle = 1
    /\ cvus = 1
    /\ Payload(1, <<1, 1>>) \in Range(log)
    /\ RpcAt("stopRecord", 2, FALSE) # {}

\* C17: the status of the run, computed from the summed counters, is the
\* highest-precedence status among the cycles: ERROR iff some cycle was
\* ERROR, FAILURE iff none was ERROR and some was FAILURE, successful iff
\* every cycle was successful.
C17_OverallIsWorstCycle ==
    pc = "done" =>
        /\ status \in {"ERROR", "FAILURE", "SUCCESSFULL"}
        /\ (status = "ERROR") <=> ("ERROR" \in report)
        /\ (status = "FAILURE") <=> ("ERROR" \notin report /\ "FAILURE" \in report)
        /\ (status = "SUCCESSFULL") <=> (report \subseteq {"SUCCESSFULL"})

C17_Witness ==
    /\ pc = "done"
    /\ status = "ERROR"
    /\ report = {"ERROR", "FAILURE"}
    /\ total_success > 0

\* A step of worker w: its position changes and it had been started.
WorkerStep(w) == pcw[w] # "none" /\ pcw'[w] # pcw[w]
CounterOf(o) ==
    IF o = "success" THEN g_success
    ELSE IF o = "error" THEN g_errors
    ELSE g_failures
Changed == {o \in Outcomes : CounterOf(o)' # CounterOf(o)}

\* C18: a worker calls the workload only after a loop test that read running
\* as true, so once running is false a worker finishes at most the call it
\* had already committed to, and its next loop test ends it; running is not
\* set again while a worker is alive.
C18_AtMostOneIterationLate ==
    [][ /\ \A w \in Workers :
              /\ (pcw'[w] = "test" /\ pcw[w] # "test") =>
                    (running /\ pcw[w] = "loop")
              /\ (~running /\ pcw[w] = "loop" /\ pcw'[w] # pcw[w]) =>
                    pcw'[w] = "done"
              /\ (~running /\ WorkerStep(w)) => running' = running
        /\ (~running /\ running') => \A w \in Workers : ~Live(w)
      ]_vars

C18_Witness ==
    /\ ~running
    /\ pc = "join"
    /\ pcw[<<0, 0>>] = "test"
    /\ pcw[<<0, 1>>] = "done"

\* C19 as stated: no worker step changes running or recording or any other
\* shared variable, except that it may change one of the three counters, and
\* then by exactly +1.
C19_WorkerAddsOne ==
    [][ \A w \in Workers :
            WorkerStep(w) =>
                /\ UNCHANGED <<flags, cycles, pc, iter, totals, stat, thr, monitor, log>>
                /\ Cardinality(Changed) <= 1
                /\ \A o \in Changed : CounterOf(o)' = CounterOf(o) + 1
      ]_vars

\* C19 as the code has it: no worker step changes running or recording or
\* any other shared variable, except that the store of an increment sets one
\* counter to one more than the value that worker loaded earlier, whatever the
\* counter holds by then.
C19_WorkerStoresLoadedPlusOne ==
    [][ \A w \in Workers :
            WorkerStep(w) =>
                /\ UNCHANGED <<flags, cycles, pc, iter, totals, stat, thr, monitor, log>>
                /\ Cardinality(Changed) <= 1
                /\ \A o \in Changed :
                      /\ pcw[w] = "store"
                      /\ result[w] = o
                      /\ CounterOf(o)' = tmp[w] + 1
                      /\ CounterOf(o)' >= 1
      ]_vars

C19_Witness ==
    /\ \E w \in Workers : pcw[w] = "store" /\ tmp[w] + 1 < CounterOf(result[w])
    /\ recording = FALSE
    /\ running = FALSE

\* C20: from the reset of a cycle to the read of its results the sum of the
\* three counters is at most the number of iterations whose recording test
\* read true in that cycle, and after stopThreads has returned no step
\* changes a counter until the next reset.
C20_CountBoundedAndFrozen ==
    [][ /\ Counted' <= seen'["success"] + seen'["failure"] + seen'["error"]
        /\ pc \in {"stopMonitor", "stopRecord", "getXmlResult", "tearDownCycle",
                   "cycle_result"} => counters' = counters
        /\ counters' # counters =>
              \/ pc = "for"
              \/ \E w \in Workers : pcw[w] = "store" /\ WorkerStep(w)
      ]_vars

C20_Witness ==
    /\ pc = "stopMonitor"
    /\ cvus = 2
    /\ Counted = 1
    /\ seen["success"] + seen["failure"] + seen["error"] = 2

====
